---- MODULE Spec2Model ----
(***************************************************************************)
(* A model of the dcplant case-management application: the Case,           *)
(* CaseOpinion, Comment, CaseImage, CaseImageItem and CaseActivity tables  *)
(* of cases/models.py and the request handlers of cases/views.py and the   *)
(* background tasks of cases/tasks.py that read and write them.            *)
(*                                                                         *)
(* Every table is a variable.  A handler is one action that performs the   *)
(* whole request: its lookups, its permission checks, its writes and the   *)
(* activity rows it logs.  The variable "last" holds the request that was  *)
(* served last and the response it got.  Handlers whose steps can          *)
(* interleave with another request (the upload loop, Case.save) are also   *)
(* modelled step by step, in the specifications SpecRace and SpecCreate.   *)
(*                                                                         *)
(* CaseActivity is append-only for the handlers and none of them reads it  *)
(* to decide anything.  The specifications that follow the table as a      *)
(* whole (its purge, its clean-up, its admin site) start with history =    *)
(* TRUE and keep every row; the others start with history = FALSE and      *)
(* keep in "activities" the rows the last request wrote.                   *)
(***************************************************************************)
EXTENDS Integers, Sequences, FiniteSets, TLC

VARIABLES
    cases,        \* Case rows: a function from the primary keys in use to the rows
    opinions,     \* CaseOpinion rows, in creation order
    comments,     \* Comment rows, in creation order
    activities,   \* CaseActivity rows, in creation order
    batches,      \* CaseImage rows with their CaseImageItem rows, in creation order
    last,         \* the last request served and its response
    procs,        \* requests in flight whose steps interleave (SpecRace, SpecCreate)
    history       \* whether activities keeps the rows of earlier requests (see Log)

vars == <<cases, opinions, comments, activities, batches, last, procs, history>>

-----------------------------------------------------------------------------
(* Bounds of the model *)

\* Case rows the requests of Spec create at most; their keys are 1..MaxCases
MaxCases == 2
\* rows of CaseOpinion the model creates at most
MaxOpinions == 1
\* rows of Comment the model creates at most
MaxComments == 1
\* the values uuid4()[:6] takes in the model
SuffixCount == 2
\* rows of CaseActivity held at most; a handler that logs needs room for its rows
MaxActs == 2
\* CaseImage rows (upload batches) the model creates at most
MaxBatches == 2
\* files of one upload at most
MaxFiles == 2
\* requests whose steps interleave at most
MaxProcs == 2

CaseIds == 1 .. MaxCases
NoCase == 0

-----------------------------------------------------------------------------
(* The user and organization directory (accounts/models.py).  It is an     *)
(* external collaborator of the case subsystem and does not change.        *)

Orgs == {"A", "B"}

Users == {"alice", "bob", "dave", "erin", "root"}

\* UserProfile.organization
Org(u) == IF u \in {"alice", "bob"} THEN "A" ELSE "B"

\* UserProfile.role
Role(u) ==
    CASE u = "alice" -> "DENTIST"
      [] u = "bob"   -> "BRANCH_ADMIN"
      [] u = "dave"  -> "DENTIST"
      [] u = "erin"  -> "ASSISTANT"
      [] OTHER       -> "HQ_ADMIN"

\* UserProfile.ROLE_CHOICES
ROLE_CHOICES ==
    {"HQ_ADMIN", "BRANCH_ADMIN", "DENTIST", "ASSISTANT", "FRONT_DESK", "READ_ONLY",
     "EXTERNAL_GUEST"}

\* the roles profiles are created with: the choices, and the role
\* ensure_user_profile gives a user without profile, which is no choice
RoleInputs == ROLE_CHOICES \cup {"STAFF"}

\* Organization.ORG_TYPE_CHOICES
ORG_TYPE_CHOICES == {"HQ", "BRANCH"}

\* UserProfile.is_hq_admin, a property of the profile, by its role
is_hq_admin(role) == role = "HQ_ADMIN"

\* UserProfile.is_branch_admin
is_branch_admin(role) == role = "BRANCH_ADMIN"

\* UserProfile.is_admin, by the role of the profile
profile_is_admin(role) == role \in {"HQ_ADMIN", "BRANCH_ADMIN"}

\* a profile on which only admins approve plans
can_approve_plans_admins(role) == role \in {"HQ_ADMIN", "BRANCH_ADMIN"}

\* UserProfile.can_approve_plans
can_approve_plans(role) == role \in {"HQ_ADMIN", "BRANCH_ADMIN", "DENTIST"}

\* UserProfile.is_admin of the profile of user u
is_admin(u) == profile_is_admin(Role(u))

\* User.is_staff
is_staff(u) == u \in {"erin", "root"}

\* User.is_superuser
is_superuser(u) == u = "root"

-----------------------------------------------------------------------------
(* Case rows *)

\* Case.STATUS_CHOICES
STATUS_CHOICES == {"DRAFT", "ACTIVE", "IN_REVIEW", "COMPLETED", "ARCHIVED"}

\* the status values requests of the model carry: three of the choices, and
\* one value that is no choice
StatusInputs == {"DRAFT", "ACTIVE", "COMPLETED"}
BogusStatus == "BOGUS"

Row(number, org, creator, status, shared, share) ==
    [case_number |-> number, organization |-> org, created_by |-> creator,
     status |-> status, is_shared |-> shared, share_with_branches |-> share]

\* Case.objects.filter(pk=c).exists()
Exists(c) == c \in DOMAIN cases

\* Q(organization=user_org) | Q(share_with_branches=user_org), the filter of
\* case_list, case_detail, add_opinion, comment_add, image_upload, image_list, ...
OrgOrShared(u, c) ==
    /\ Exists(c)
    /\ \/ cases[c].organization = Org(u)
       \/ Org(u) \in cases[c].share_with_branches

\* get_object_or_404(Case, pk=pk, organization=profile.organization)
OwnOrg(u, c) == Exists(c) /\ cases[c].organization = Org(u)

\* request.user == case.created_by or profile.is_admin or request.user.is_staff
CanEdit(u, c) == u = cases[c].created_by \/ is_admin(u) \/ is_staff(u)

\* a request and its response: listed holds the cases a list shows, files the
\* files an ingestion was sent, errors the per-file errors it reports, series
\* the items a viewer gets
Resp(op, u, c, code, listed) ==
    [op |-> op, user |-> u, case |-> c, code |-> code, listed |-> listed,
     files |-> <<>>, errors |-> <<>>, series |-> <<>>]

\* Python's None
None == -1

\* CaseActivity.objects.create(case=..., activity_type=..., metadata=...): count
\* and total are the numbers of files the row records, None when it records none
ActN(c, type, count, total) ==
    [case |-> c, activity_type |-> type, count |-> count, total |-> total]

Act(c, type) == ActN(c, type, None, None)

\* the rows of earlier requests the model keeps
Kept == IF history THEN activities ELSE <<>>

Room(n) == Len(Kept) + n <= MaxActs

\* a request that appends the rows "rows" to CaseActivity, in this order
Log(rows) ==
    /\ Room(Len(rows))
    /\ activities' = Kept \o rows

\* rows of a table that do not belong to case c (on_delete=CASCADE)
RECURSIVE Without(_, _)
Without(rows, c) ==
    IF rows = <<>> THEN <<>>
    ELSE IF Head(rows).case = c THEN Without(Tail(rows), c)
         ELSE <<Head(rows)>> \o Without(Tail(rows), c)

\* share sets a CaseForm offers to user u: organizations other than the user's
ShareChoices(u) == SUBSET (Orgs \ {Org(u)})

\* a request that changes nothing but its response
Answer(op, u, c, code) ==
    /\ last' = Resp(op, u, c, code, {})
    /\ Log(<<>>)
    /\ UNCHANGED <<cases, opinions, comments, batches, procs, history>>

-----------------------------------------------------------------------------
(* Organization and UserProfile rows read back (accounts/models.py) *)

\* the properties of a profile that hold for a role
ProfileProperties(role) ==
    {name \in {"is_hq_admin", "is_branch_admin", "is_admin", "can_approve_plans"} :
        \/ name = "is_hq_admin" /\ is_hq_admin(role)
        \/ name = "is_branch_admin" /\ is_branch_admin(role)
        \/ name = "is_admin" /\ profile_is_admin(role)
        \/ name = "can_approve_plans" /\ can_approve_plans(role)}

\* UserProfile.objects.create(user, organization, role), and the properties of
\* the profile read back; the role is stored as given
user_profile(u, org, role) ==
    /\ last' = [op |-> "user_profile", user |-> u, case |-> NoCase, code |-> "ok",
                listed |-> {}, files |-> <<>>, errors |-> <<>>, series |-> <<>>,
                organization |-> org, role |-> role,
                properties |-> ProfileProperties(role)]
    /\ Log(<<>>)
    /\ UNCHANGED <<cases, opinions, comments, batches, procs, history>>

\* Organization.objects.create(name, org_type): is_active takes its default
organization_create(name, org_type) ==
    /\ last' = [op |-> "organization_create", user |-> "none", case |-> NoCase,
                code |-> "ok", listed |-> {}, files |-> <<>>, errors |-> <<>>,
                series |-> <<>>, name |-> name, org_type |-> org_type,
                is_active |-> TRUE]
    /\ Log(<<>>)
    /\ UNCHANGED <<cases, opinions, comments, batches, procs, history>>

-----------------------------------------------------------------------------
(* case_list and case_detail *)

\* the queryset of case_list
Listed(u) ==
    {c \in DOMAIN cases :
        /\ OrgOrShared(u, c)
        /\ (cases[c].status # "DRAFT" \/ cases[c].created_by = u)}

case_list(u) ==
    /\ last' = Resp("case_list", u, NoCase, "ok", Listed(u))
    /\ Log(<<>>)
    /\ UNCHANGED <<cases, opinions, comments, batches, procs, history>>

\* the lookup of case_detail: TRUE when the view goes on with the case.  The
\* first query excludes drafts of other users; when it finds nothing the view
\* falls back to get_object_or_404 on the organization-or-shared filter.
DetailFound(u, c) ==
    IF Exists(c) /\ ~(cases[c].status = "DRAFT" /\ cases[c].created_by # u)
    THEN TRUE
    ELSE OrgOrShared(u, c)

\* comment_filter of case_detail: the comments of the case the page shows, by
\* position in the table: the requester's own, the TEAM comments when the case
\* belongs to the requester's organization, and the SHARED ones when the case
\* is shared or belongs to the requester's organization
CommentsShown(u, c) ==
    {k \in 1 .. Len(comments) :
        /\ comments[k].case = c
        /\ \/ comments[k].author = u
           \/ comments[k].visibility = "TEAM" /\ cases[c].organization = Org(u)
           \/ /\ comments[k].visibility = "SHARED"
              /\ cases[c].is_shared \/ cases[c].organization = Org(u)}

case_detail(u, c) ==
    IF DetailFound(u, c)
    THEN /\ Log(<<Act(c, "VIEWED")>>)
         /\ last' = Resp("case_detail", u, c, "ok", {}) @@ [comments |-> CommentsShown(u, c)]
         /\ UNCHANGED <<cases, opinions, comments, batches, procs, history>>
    ELSE Answer("case_detail", u, c, "not_found")

-----------------------------------------------------------------------------
(* Case.save and case_create *)

Suffixes == 1 .. SuffixCount

\* Case.generate_case_number: prefix of the organization name, the date (one
\* day in the model) and a random suffix
generate_case_number(org, s) == <<org, s>>

\* a table without the unique index: every insert is accepted
UniqueOk_absent(number) == TRUE

\* the unique index on Case.case_number: TRUE when the insert is accepted
UniqueOk(number) == \A d \in DOMAIN cases : cases[d].case_number # number

\* the primary key of the next row
FreePk == CHOOSE c \in 1 .. Cardinality(DOMAIN cases) + 1 : c \notin DOMAIN cases

\* INSERT of a Case row
InsertCase(c, row) == [d \in DOMAIN cases \cup {c} |-> IF d = c THEN row ELSE cases[d]]

\* DELETE of a Case row
DeleteCase(c) == [d \in DOMAIN cases \ {c} |-> cases[d]]

case_create(u) ==
    /\ Cardinality(DOMAIN cases) < MaxCases
    /\ \E status \in StatusInputs, shared \in BOOLEAN, share \in ShareChoices(u),
          s \in Suffixes :
          LET number == generate_case_number(Org(u), s)
              c == FreePk
          IN IF UniqueOk(number)
             THEN /\ cases' = InsertCase(c, Row(number, Org(u), u, status, shared, share))
                  /\ Log(<<Act(c, "CREATED")>>)
                  /\ last' = Resp("case_create", u, c, "ok", {})
                  /\ UNCHANGED <<opinions, comments, batches, procs, history>>
             ELSE \* IntegrityError: the insert is refused, the request fails
                  Answer("case_create", u, NoCase, "error")

-----------------------------------------------------------------------------
(* case_update, case_publish, case_to_draft, ajax_case_status_update *)

\* case_update, POST with a valid form.  form.is_valid() builds the instance,
\* so case.status already holds the posted status when old_status is read
\* (views.py:358-359): the comparison old_status != case.status is never true
\* and the row logged is UPDATED.
case_update(u, c) ==
    IF ~OwnOrg(u, c) THEN Answer("case_update", u, c, "not_found")
    ELSE IF ~CanEdit(u, c) THEN Answer("case_update", u, c, "refused")
    ELSE /\ \E status \in StatusInputs, shared \in BOOLEAN, share \in ShareChoices(u) :
               LET posted == [cases[c] EXCEPT !.status = status, !.is_shared = shared,
                                                !.share_with_branches = share]
                   old_status == posted.status
               IN /\ cases' = [cases EXCEPT ![c] = posted]
                  /\ Log(<<Act(c, IF old_status # posted.status THEN "STATUS_CHANGED"
                                  ELSE "UPDATED")>>)
         /\ last' = Resp("case_update", u, c, "ok", {})
         /\ UNCHANGED <<opinions, comments, batches, procs, history>>

\* get_object_or_404(Case, pk=pk, created_by=request.user)
CreatedBy(u, c) == Exists(c) /\ cases[c].created_by = u

case_publish(u, c) ==
    IF ~CreatedBy(u, c) THEN Answer("case_publish", u, c, "not_found")
    ELSE IF cases[c].status # "DRAFT" THEN Answer("case_publish", u, c, "refused")
    ELSE /\ cases' = [cases EXCEPT ![c].status = "ACTIVE"]
         /\ Log(<<Act(c, "UPDATED")>>)
         /\ last' = Resp("case_publish", u, c, "ok", {})
         /\ UNCHANGED <<opinions, comments, batches, procs, history>>

case_to_draft(u, c) ==
    IF ~CreatedBy(u, c) THEN Answer("case_to_draft", u, c, "not_found")
    ELSE IF cases[c].status = "DRAFT" THEN Answer("case_to_draft", u, c, "refused")
    ELSE /\ cases' = [cases EXCEPT ![c].status = "DRAFT"]
         /\ Log(<<Act(c, "UPDATED")>>)
         /\ last' = Resp("case_to_draft", u, c, "ok", {})
         /\ UNCHANGED <<opinions, comments, batches, procs, history>>

ajax_case_status_update(u, c) ==
    IF ~OwnOrg(u, c) THEN Answer("ajax_case_status_update", u, c, "not_found")
    ELSE \E new_status \in StatusInputs \cup {BogusStatus} :
         IF new_status \notin STATUS_CHOICES
         THEN Answer("ajax_case_status_update", u, c, "invalid")
         ELSE /\ cases' = [cases EXCEPT ![c].status = new_status]
              /\ Log(<<Act(c, "STATUS_CHANGED")>>)
              /\ last' = Resp("ajax_case_status_update", u, c, "ok", {})
              /\ UNCHANGED <<opinions, comments, batches, procs, history>>

-----------------------------------------------------------------------------
(* case_delete *)

\* a case_delete that does not look at the opinions of the case
has_other_opinions_unchecked(u, c) == FALSE

\* case.opinions.filter(is_deleted=False).exclude(author=request.user).exists()
has_other_opinions(u, c) ==
    \E i \in 1 .. Len(opinions) :
        /\ opinions[i].case = c
        /\ ~opinions[i].is_deleted
        /\ opinions[i].author # u

\* the lookup of case_delete: any case for a superuser or staff, a case of the
\* user's organization for the others
DeleteFound(u, c) ==
    IF is_superuser(u) \/ is_staff(u) THEN Exists(c) ELSE OwnOrg(u, c)

\* the permission check of case_delete for users who are neither superuser nor staff
DeleteAllowed(u, c) ==
    is_superuser(u) \/ is_staff(u) \/ u = cases[c].created_by \/ is_admin(u)

case_delete(u, c) ==
    IF ~DeleteFound(u, c) THEN Answer("case_delete", u, c, "not_found")
    ELSE IF has_other_opinions(u, c) /\ ~is_superuser(u)
    THEN Answer("case_delete", u, c, "refused")
    ELSE IF ~DeleteAllowed(u, c) THEN Answer("case_delete", u, c, "forbidden")
    ELSE \* case.delete(): the rows that reference the case go with it
         /\ cases' = DeleteCase(c)
         /\ opinions' = Without(opinions, c)
         /\ comments' = Without(comments, c)
         /\ activities' = Without(Kept, c)
         /\ batches' = Without(batches, c)
         /\ last' = Resp("case_delete", u, c, "ok", {})
         /\ UNCHANGED <<procs, history>>

-----------------------------------------------------------------------------
(* add_opinion, update_opinion, delete_opinion *)

\* the values a request posts as case_status: absent, a choice, or no choice
CaseStatusInputs == {""} \cup StatusInputs \cup {BogusStatus}

\* the lookup of add_opinion
OpinionCaseFound(u, c) ==
    IF is_staff(u) THEN Exists(c) ELSE OrgOrShared(u, c)

\* if case_status and case_status != case.status
StatusRequested(c, case_status) == case_status # "" /\ case_status # cases[c].status

\* the rows add_opinion and update_opinion log: a status row when the case
\* status is changed, then the row "after"
OpinionRows(c, case_status, after) ==
    IF StatusRequested(c, case_status)
    THEN <<Act(c, "STATUS_CHANGED"), Act(c, after)>>
    ELSE <<Act(c, after)>>

\* case.status = case_status; case.save(), when requested
OpinionStatus(c, case_status) ==
    IF StatusRequested(c, case_status)
    THEN [cases EXCEPT ![c].status = case_status]
    ELSE cases

add_opinion(u, c) ==
    IF ~OpinionCaseFound(u, c) THEN Answer("add_opinion", u, c, "not_found")
    ELSE \E content \in BOOLEAN, case_status \in CaseStatusInputs :
         IF ~content THEN Answer("add_opinion", u, c, "invalid")
         ELSE /\ Len(opinions) < MaxOpinions
              /\ opinions' = Append(opinions,
                     [case |-> c, author |-> u, is_deleted |-> FALSE])
              /\ cases' = OpinionStatus(c, case_status)
              /\ Log(OpinionRows(c, case_status, "COMMENTED"))
              /\ last' = Resp("add_opinion", u, c, "ok", {})
              /\ UNCHANGED <<comments, batches, procs, history>>

update_opinion(u, o) ==
    /\ o \in 1 .. Len(opinions)
    /\ LET c == opinions[o].case
       IN IF u # opinions[o].author THEN Answer("update_opinion", u, c, "forbidden")
          ELSE \E content \in BOOLEAN, case_status \in CaseStatusInputs :
               IF ~content THEN Answer("update_opinion", u, c, "invalid")
               ELSE /\ cases' = OpinionStatus(c, case_status)
                    /\ Log(OpinionRows(c, case_status, "UPDATED"))
                    /\ last' = Resp("update_opinion", u, c, "ok", {})
                    /\ UNCHANGED <<opinions, comments, batches, procs, history>>

delete_opinion(u, o) ==
    /\ o \in 1 .. Len(opinions)
    /\ LET c == opinions[o].case
       IN IF u # opinions[o].author THEN Answer("delete_opinion", u, c, "forbidden")
          ELSE /\ opinions' = [opinions EXCEPT ![o].is_deleted = TRUE]
               /\ Log(<<>>)
               /\ last' = Resp("delete_opinion", u, c, "ok", {})
               /\ UNCHANGED <<cases, comments, batches, procs, history>>

-----------------------------------------------------------------------------
(* case_share and comment_add *)

\* POST of case_share: "unshare" clears the share set, else org_ids replace it
case_share(u, c) ==
    IF ~OwnOrg(u, c) THEN Answer("case_share", u, c, "not_found")
    ELSE IF ~CanEdit(u, c) THEN Answer("case_share", u, c, "refused")
    ELSE \E unshare \in BOOLEAN, org_ids \in ShareChoices(u) :
         IF unshare
         THEN /\ cases' = [cases EXCEPT ![c].share_with_branches = {},
                                        ![c].is_shared = FALSE]
              /\ Log(<<Act(c, "SHARED")>>)
              /\ last' = Resp("case_unshare", u, c, "ok", {})
              /\ UNCHANGED <<opinions, comments, batches, procs, history>>
         ELSE IF org_ids # {}
         THEN /\ cases' = [cases EXCEPT ![c].share_with_branches = org_ids,
                                        ![c].is_shared = TRUE]
              /\ Log(<<Act(c, "SHARED")>>)
              /\ last' = Resp("case_share", u, c, "ok", {})
              /\ UNCHANGED <<opinions, comments, batches, procs, history>>
         ELSE Answer("case_share", u, c, "invalid")

\* Comment.VISIBILITY_CHOICES
VISIBILITY_CHOICES == {"PRIVATE", "TEAM", "SHARED"}

comment_add(u, c) ==
    IF ~OrgOrShared(u, c) THEN Answer("comment_add", u, c, "not_found")
    ELSE \E valid \in BOOLEAN, visibility \in VISIBILITY_CHOICES :
         IF ~valid THEN Answer("comment_add", u, c, "invalid")
         ELSE /\ Len(comments) < MaxComments
              /\ comments' = Append(comments,
                     [case |-> c, author |-> u, visibility |-> visibility])
              /\ Log(<<Act(c, "COMMENTED")>>)
              /\ last' = Resp("comment_add", u, c, "ok", {})
              /\ UNCHANGED <<cases, opinions, batches, procs, history>>

-----------------------------------------------------------------------------
(* The activity log: purge, clean-up, admin site, bulk update *)

\* the requester of a background task
Celery == "celery"

delete_all_activity_logs(u) ==
    IF ~is_superuser(u)
    THEN Answer("delete_all_activity_logs", u, NoCase, "forbidden")
    ELSE /\ activities' = <<>>
         /\ last' = Resp("delete_all_activity_logs", u, NoCase, "ok", {})
         /\ UNCHANGED <<cases, opinions, comments, batches, procs, history>>

\* cleanup_old_activities deletes the rows created more than 90 days ago.  Rows
\* are in creation order and any time may pass between two requests, so the
\* rows older than the cut-off are the first k rows, for any k.
cleanup_old_activities(k) ==
    /\ k \in 0 .. Len(Kept)
    /\ activities' = SubSeq(Kept, k + 1, Len(Kept))
    /\ last' = Resp("cleanup_old_activities", Celery, NoCase, "ok", {})
    /\ UNCHANGED <<cases, opinions, comments, batches, procs, history>>

\* CaseActivityAdmin.has_delete_permission
has_delete_permission(u) == TRUE

\* the delete view of CaseActivityAdmin; the admin site admits staff users
admin_delete_activity(u, i) ==
    /\ i \in 1 .. Len(Kept)
    /\ IF is_staff(u) /\ has_delete_permission(u)
       THEN /\ activities' = SubSeq(Kept, 1, i - 1) \o SubSeq(Kept, i + 1, Len(Kept))
            /\ last' = Resp("admin_delete_activity", u, Kept[i].case, "ok", {})
            /\ UNCHANGED <<cases, opinions, comments, batches, procs, history>>
       ELSE Answer("admin_delete_activity", u, Kept[i].case, "forbidden")

\* an empty case_number, which Case.save replaces
NoNumber == <<>>

\* the updates mappings bulk_update_cases is called with in the model: a
\* status, or a case_number (a number of the usual form, or the empty one)
BulkUpdates ==
    {[status |-> x] : x \in StatusInputs \cup {BogusStatus}}
    \cup {[case_number |-> n] :
             n \in {NoNumber} \cup {generate_case_number(o, SuffixCount) : o \in Orgs}}

\* setattr(case, field, value) for every field of updates the case has, then
\* Case.save, which generates a case_number (suffix s) when the case has none
ApplyUpdates(row, updates, s) ==
    IF "status" \in DOMAIN updates THEN [row EXCEPT !.status = updates.status]
    ELSE IF updates.case_number = NoNumber
         THEN [row EXCEPT !.case_number = generate_case_number(row.organization, s)]
         ELSE [row EXCEPT !.case_number = updates.case_number]

\* bulk_update_cases for one case id: select_for_update, setattr, save, log;
\* a case_number another case holds is refused by the unique index, and the
\* task ends with the exception
bulk_update_cases(c) ==
    IF ~Exists(c) THEN Answer("bulk_update_cases", Celery, c, "error")
    ELSE \E updates \in BulkUpdates, s \in Suffixes :
         LET row == ApplyUpdates(cases[c], updates, s)
         IN IF \E d \in DOMAIN cases \ {c} : cases[d].case_number = row.case_number
            THEN Answer("bulk_update_cases", Celery, c, "error")
            ELSE /\ cases' = [cases EXCEPT ![c] = row]
                 /\ Log(<<Act(c, "BULK_UPDATE")>>)
                 /\ last' = Resp("bulk_update_cases", Celery, c, "ok", {})
                 /\ UNCHANGED <<opinions, comments, batches, procs, history>>

-----------------------------------------------------------------------------
(* Uploaded files, CaseImageItem.filename_numeric and CaseImageItem.save *)

Digits == <<"0", "1", "2", "3", "4", "5", "6", "7", "8", "9">>

IsDigit(ch) == \E d \in 1 .. Len(Digits) : Digits[d] = ch

DigitVal(ch) == (CHOOSE d \in 1 .. Len(Digits) : Digits[d] = ch) - 1

\* the digit run a sequence of characters ends with (empty when it ends otherwise)
RECURSIVE TrailingDigits(_)
TrailingDigits(chars) ==
    IF chars = <<>> \/ ~IsDigit(chars[Len(chars)]) THEN <<>>
    ELSE Append(TrailingDigits(SubSeq(chars, 1, Len(chars) - 1)), chars[Len(chars)])

\* re.findall(r"\d+", name)[-1]: the last digit run of the name, empty when none
RECURSIVE LastDigitRun(_)
LastDigitRun(chars) ==
    IF chars = <<>> THEN <<>>
    ELSE IF IsDigit(chars[Len(chars)]) THEN TrailingDigits(chars)
    ELSE LastDigitRun(SubSeq(chars, 1, Len(chars) - 1))

\* int() of a digit run
RECURSIVE ToInt(_)
ToInt(run) ==
    IF run = <<>> THEN 0
    ELSE 10 * ToInt(SubSeq(run, 1, Len(run) - 1)) + DigitVal(run[Len(run)])

\* a sort key that reads every digit of the name as one number
filename_numeric_all_digits(stem) == ToInt(SelectSeq(stem, IsDigit))

\* CaseImageItem.filename_numeric on a name whose extension is already split off:
\* the trailing digit run, else the last digit run, else 0
filename_numeric(stem) ==
    IF LastDigitRun(stem) = <<>> THEN 0
    ELSE IF TrailingDigits(stem) # <<>> THEN ToInt(TrailingDigits(stem))
    ELSE ToInt(LastDigitRun(stem))

\* an uploaded file: its name (stem and extension), whether pydicom reads it,
\* the InstanceNumber of the data set (None when it has none), whether the
\* storage saves it, and whether its content reaches the ingestion at all
File(stem, ext, readable, instance, storable) ==
    [stem |-> stem, ext |-> ext, readable |-> readable, instance |-> instance,
     storable |-> storable, fetched |-> TRUE]

\* the files requests of the model upload: two slices of a DICOM series whose
\* file names sort against their instance numbers, a DICOM-named file that
\* pydicom cannot read, a photo, and a photo the storage refuses
Slice1 == File(<<"s", "2">>, ".dcm", TRUE, 1, TRUE)
Slice2 == File(<<"s", "1">>, ".dcm", TRUE, 2, TRUE)
Corrupt == File(<<"x", "7">>, ".dcm", FALSE, None, TRUE)
Photo == File(<<"p">>, ".jpg", TRUE, None, TRUE)
Refused == File(<<"q">>, ".jpg", TRUE, None, FALSE)
\* a photo whose content does not arrive: the S3 object is missing, the base64
\* text does not decode
Missing == [Photo EXCEPT !.stem = <<"m">>, !.fetched = FALSE]

\* file_extension in [".dcm", ".dicom"]
IsDicomName(f) == f.ext \in {".dcm", ".dicom"}

\* metadata["instance_number"] after the extraction: set when the file is
\* DICOM-named, pydicom reads it, the data set has an InstanceNumber and the
\* ingestion path extracts it (process_s3_images does not)
ExtractedInstance(f, extracts) ==
    IF IsDicomName(f) /\ f.readable /\ extracts THEN f.instance ELSE None

\* CaseImageItem.save on creation: the order of a DICOM item is its instance
\* number when that is truthy, else filename_numeric; other items keep the index
SavedOrder(f, instance_number, index) ==
    IF IsDicomName(f)
    THEN IF instance_number # None /\ instance_number # 0
         THEN instance_number
         ELSE filename_numeric(f.stem)
    ELSE index

\* the CaseImageItem row of file f at position index (from 0) of its batch
Item(f, index, primary, extracts) ==
    [stem |-> f.stem, ext |-> f.ext, is_dicom |-> IsDicomName(f),
     is_primary |-> primary,
     instance_number |-> ExtractedInstance(f, extracts),
     order |-> SavedOrder(f, ExtractedInstance(f, extracts), index)]

-----------------------------------------------------------------------------
(* CaseImage batches and the three ingestion paths *)

\* the transaction mark of a committed row
Committed == 0

\* a CaseImage row with its CaseImageItem rows; tx names the open transaction
\* that wrote the row, Committed once it is visible to every reader
Batch(c, u, items, tx) == [case |-> c, uploaded_by |-> u, items |-> items, tx |-> tx]

\* an ingestion that does not look for an existing primary item
HasPrimary_unchecked(c, tx) == FALSE

\* CaseImageItem.objects.filter(caseimage__case=case, is_primary=True).exists(),
\* as the reader in transaction tx sees it
HasPrimary(c, tx) ==
    \E b \in 1 .. Len(batches) :
        /\ batches[b].case = c
        /\ batches[b].tx \in {Committed, tx}
        /\ \E i \in 1 .. Len(batches[b].items) : batches[b].items[i].is_primary

\* the uploads made of the files F: up to MaxFiles files, in any order
Uploads(F) == UNION {[1 .. n -> F] : n \in 0 .. MaxFiles}

\* the items the loop over files persists, from position i on: a file the
\* storage refuses raises, is reported and skipped; only index 0 can be primary
RECURSIVE Persist(_, _, _, _)
Persist(files, i, no_primary, extracts) ==
    IF i > Len(files) THEN <<>>
    ELSE (IF files[i].storable
          THEN <<Item(files[i], i - 1, i = 1 /\ no_primary, extracts)>>
          ELSE <<>>) \o Persist(files, i + 1, no_primary, extracts)

\* errors.append(f"{name}: {e}"): the names of the files that raised
RECURSIVE FileErrors(_, _)
FileErrors(files, i) ==
    IF i > Len(files) THEN <<>>
    ELSE (IF files[i].storable THEN <<>> ELSE <<<<files[i].stem, files[i].ext>>>>)
         \o FileErrors(files, i + 1)

\* an ingestion that writes one IMAGE_ADDED row for each item
Summary_per_file(c, count, total) ==
    [i \in 1 .. count |-> ActN(c, "IMAGE_ADDED", 1, total)]

\* if uploaded_count > 0: CaseActivity.objects.create(activity_type="IMAGE_ADDED"):
\* the rows an ingestion writes after its loop
Summary(c, count, total) ==
    IF count > 0 THEN <<ActN(c, "IMAGE_ADDED", count, total)>> ELSE <<>>

\* image_upload, POST: one batch row, one item per file that is persisted, one
\* IMAGE_ADDED row when at least one is
image_upload(u, c, files) ==
    IF ~OrgOrShared(u, c) THEN Answer("image_upload", u, c, "not_found")
    ELSE IF files = <<>> THEN Answer("image_upload", u, c, "invalid")
         ELSE LET items == Persist(files, 1, ~HasPrimary(c, Committed), TRUE)
              IN /\ Len(batches) < MaxBatches
                 /\ batches' = Append(batches, Batch(c, u, items, Committed))
                 /\ Log(Summary(c, Len(items), None))
                 /\ last' = [Resp("image_upload", u, c,
                                  IF items # <<>> THEN "ok" ELSE "none_uploaded", {})
                             EXCEPT !.files = files, !.errors = FileErrors(files, 1)]
                 /\ UNCHANGED <<cases, opinions, comments, procs, history>>

\* the loop of a background task over its files, inside transaction.atomic():
\* a file whose content does not arrive (base64, S3) raises before the item is
\* created and is reported; a file that raises inside
\* CaseImageItem.objects.create marks the transaction for rollback
\* (Model.save_base), and every later query of the block raises; acc holds the
\* items created, the errors reported and the mark
RECURSIVE TaskLoop(_, _, _, _, _)
TaskLoop(files, i, no_primary, extracts, acc) ==
    IF i > Len(files) THEN acc
    ELSE LET f == files[i]
             name == <<f.stem, f.ext>>
         IN TaskLoop(files, i + 1, no_primary, extracts,
                IF ~f.fetched \/ acc.needs_rollback
                THEN [acc EXCEPT !.errors = Append(@, name)]
                ELSE IF ~f.storable
                THEN [acc EXCEPT !.errors = Append(@, name), !.needs_rollback = TRUE]
                ELSE [acc EXCEPT !.items =
                          Append(@, Item(f, i - 1, i = 1 /\ no_primary, extracts))])

\* the loop of a task started on an empty batch
TaskRun(files, no_primary, extracts) ==
    TaskLoop(files, 1, no_primary, extracts,
             [items |-> <<>>, errors |-> <<>>, needs_rollback |-> FALSE])

\* a background ingestion run to its end: process_image_upload extracts the
\* instance number, process_s3_images does not.  With the transaction marked
\* for rollback, CaseActivity.objects.create raises out of the atomic block
\* when an item was counted (the task answers "error"), and the block rolls
\* back silently when none was: either way nothing of the batch is stored.
Ingestion(task, extracts, u, c, files) ==
    IF ~Exists(c) THEN Answer(task, u, c, "error")
    ELSE LET run == TaskRun(files, ~HasPrimary(c, Committed), extracts)
         IN IF run.needs_rollback
            THEN /\ Log(<<>>)
                 /\ last' = [Resp(task, u, c,
                                  IF run.items # <<>> THEN "error" ELSE "success", {})
                             EXCEPT !.files = files,
                                    !.errors = IF run.items # <<>> THEN <<>>
                                               ELSE run.errors]
                 /\ UNCHANGED <<cases, opinions, comments, batches, procs, history>>
            ELSE /\ Len(batches) < MaxBatches
                 /\ batches' = Append(batches, Batch(c, u, run.items, Committed))
                 /\ Log(Summary(c, Len(run.items), Len(files)))
                 /\ last' = [Resp(task, u, c, "success", {})
                             EXCEPT !.files = files, !.errors = run.errors]
                 /\ UNCHANGED <<cases, opinions, comments, procs, history>>

process_image_upload(u, c, files) ==
    Ingestion("process_image_upload", TRUE, u, c, files)

process_s3_images(u, c, files) ==
    Ingestion("process_s3_images", FALSE, u, c, files)

-----------------------------------------------------------------------------
(* image_delete, delete_dicom_series, dicom_series_viewer, download_dicom_series *)

\* a sequence without its element at position b
Remove(rows, b) == SubSeq(rows, 1, b - 1) \o SubSeq(rows, b + 1, Len(rows))

\* case.organization == user_org or (case.is_shared and user_org in share set)
has_case_access(u, c) ==
    \/ cases[c].organization = Org(u)
    \/ cases[c].is_shared /\ Org(u) \in cases[c].share_with_branches

\* image_delete: b is the key of a CaseImage row, its position in the table
image_delete(u, b) ==
    IF b \notin 1 .. Len(batches) THEN Answer("image_delete", u, NoCase, "not_found")
    ELSE LET c == batches[b].case
         IN IF ~has_case_access(u, c) THEN Answer("image_delete", u, c, "forbidden")
            ELSE IF ~(u = batches[b].uploaded_by \/ is_superuser(u))
            THEN Answer("image_delete", u, c, "forbidden")
            ELSE /\ Log(<<Act(c, "IMAGE_REMOVED")>>)
                 /\ batches' = Remove(batches, b)
                 /\ last' = Resp("image_delete", u, c, "ok", {})
                 /\ UNCHANGED <<cases, opinions, comments, procs, history>>

\* items__is_dicom=True: the batch has a DICOM item
HasDicom(batch) == \E i \in 1 .. Len(batch.items) : batch.items[i].is_dicom

\* the DICOM items of a batch, in the order they are stored
DicomItems(batch) == SelectSeq(batch.items, LAMBDA it : it.is_dicom)

\* a count of every item of the batches of case c that hold a DICOM item
RECURSIVE DicomCount_of_groups(_, _)
DicomCount_of_groups(rows, c) ==
    IF rows = <<>> THEN 0
    ELSE (IF Head(rows).case = c /\ HasDicom(Head(rows))
          THEN Len(Head(rows).items) ELSE 0)
         + DicomCount_of_groups(Tail(rows), c)

\* CaseImageItem.objects.filter(caseimage__case=case, is_dicom=True).count()
RECURSIVE DicomCount(_, _)
DicomCount(rows, c) ==
    IF rows = <<>> THEN 0
    ELSE (IF Head(rows).case = c THEN Len(DicomItems(Head(rows))) ELSE 0)
         + DicomCount(Tail(rows), c)

\* a delete that takes every batch of case c
WithoutDicomGroups_of_case(rows, c) == SelectSeq(rows, LAMBDA b : b.case # c)

\* dicom_image_groups.delete(): the batches of case c that have a DICOM item go
RECURSIVE WithoutDicomGroups(_, _)
WithoutDicomGroups(rows, c) ==
    IF rows = <<>> THEN <<>>
    ELSE IF Head(rows).case = c /\ HasDicom(Head(rows))
         THEN WithoutDicomGroups(Tail(rows), c)
         ELSE <<Head(rows)>> \o WithoutDicomGroups(Tail(rows), c)

delete_dicom_series(u, c) ==
    IF ~OwnOrg(u, c) THEN Answer("delete_dicom_series", u, c, "not_found")
    ELSE IF ~CanEdit(u, c) THEN Answer("delete_dicom_series", u, c, "forbidden")
    ELSE IF DicomCount(batches, c) = 0 THEN Answer("delete_dicom_series", u, c, "empty")
    ELSE /\ batches' = WithoutDicomGroups(batches, c)
         /\ Log(<<ActN(c, "IMAGE_REMOVED", DicomCount(batches, c), None)>>)
         /\ last' = Resp("delete_dicom_series", u, c, "ok", {})
         /\ UNCHANGED <<cases, opinions, comments, procs, history>>

\* order_by("order"): the orderings of items by ascending order; the database
\* is free to return items of equal order either way
OrderedBy(items) ==
    LET n == Len(items)
    IN {[i \in 1 .. n |-> items[p[i]]] :
           p \in {q \in Permutations(1 .. n) :
                    \A i, j \in 1 .. n : i < j => items[q[i]].order <= items[q[j]].order}}

\* the item lists dicom_series_viewer can build: it walks the DICOM groups of
\* the case in the default ordering of CaseImage, newest first, and extends the
\* list with the DICOM items of each group ordered by order
RECURSIVE SeriesOf(_, _)
SeriesOf(rows, c) ==
    IF rows = <<>> THEN {<<>>}
    ELSE LET group == rows[Len(rows)]
             older == SeriesOf(SubSeq(rows, 1, Len(rows) - 1), c)
         IN IF group.case = c /\ HasDicom(group)
            THEN {first \o rest : first \in OrderedBy(DicomItems(group)), rest \in older}
            ELSE older

dicom_series_viewer(u, c) ==
    IF ~OrgOrShared(u, c) THEN Answer("dicom_series_viewer", u, c, "not_found")
    ELSE IF DicomCount(batches, c) = 0 THEN Answer("dicom_series_viewer", u, c, "empty")
    ELSE \E dicom_items \in SeriesOf(batches, c) :
         /\ Log(<<Act(c, "VIEWED")>>)
         /\ last' = [Resp("dicom_series_viewer", u, c, "ok", {})
                     EXCEPT !.series = dicom_items]
         /\ UNCHANGED <<cases, opinions, comments, batches, procs, history>>

\* CaseImageManager.get_dicom_series_sorted filters CaseImage rows by is_dicom,
\* a field of CaseImageItem: the query set cannot be built (FieldError), so the
\* manager method has no result
get_dicom_series_sorted(c) == [raised |-> "FieldError", rows |-> <<>>]

\* download_dicom_series: the lookup of the case, then the manager call
download_dicom_series(u, c) ==
    IF ~OrgOrShared(u, c) THEN Answer("download_dicom_series", u, c, "not_found")
    ELSE IF get_dicom_series_sorted(c).raised # ""
    THEN Answer("download_dicom_series", u, c, "error")
    ELSE /\ Log(<<Act(c, "DOWNLOADED")>>)
         /\ last' = [Resp("download_dicom_series", u, c, "ok", {})
                     EXCEPT !.series = get_dicom_series_sorted(c).rows]
         /\ UNCHANGED <<cases, opinions, comments, batches, procs, history>>

\* image_list: the lookup of the case, then the page; nothing is logged
image_list(u, c) ==
    IF ~OrgOrShared(u, c) THEN Answer("image_list", u, c, "not_found")
    ELSE Answer("image_list", u, c, "ok")

\* image_detail and dicom_viewer: b is the key of a CaseImage row; the check
\* is has_access, which asks for is_shared besides the share set
BatchView(op, u, b) ==
    IF b \notin 1 .. Len(batches) THEN Answer(op, u, NoCase, "not_found")
    ELSE LET c == batches[b].case
         IN IF ~has_case_access(u, c) THEN Answer(op, u, c, "forbidden")
            ELSE /\ Log(<<Act(c, "VIEWED")>>)
                 /\ last' = Resp(op, u, c, "ok", {})
                 /\ UNCHANGED <<cases, opinions, comments, batches, procs, history>>

image_detail(u, b) == BatchView("image_detail", u, b)

dicom_viewer(u, b) == BatchView("dicom_viewer", u, b)

\* case.images.all().prefetch_related("items").order_by("image_type", ...):
\* CaseImage has no field image_type, so the query set cannot be built
\* (FieldError) and download_all_images has no image groups to export
all_image_groups(c) == [raised |-> "FieldError", rows |-> <<>>]

\* download_all_images: the lookup of the case, then the query set
download_all_images(u, c) ==
    IF ~OrgOrShared(u, c) THEN Answer("download_all_images", u, c, "not_found")
    ELSE IF all_image_groups(c).raised # ""
    THEN Answer("download_all_images", u, c, "error")
    ELSE IF all_image_groups(c).rows = <<>>
    THEN Answer("download_all_images", u, c, "empty")
    ELSE /\ Log(<<Act(c, "DOWNLOADED")>>)
         /\ last' = Resp("download_all_images", u, c, "ok", {})
         /\ UNCHANGED <<cases, opinions, comments, batches, procs, history>>

-----------------------------------------------------------------------------
(* Requests in flight.  A request of SpecCreate or SpecRace is a process     *)
(* that takes the steps of its handler one at a time, so that the steps of  *)
(* two requests interleave.                                                 *)

Procs == 1 .. MaxProcs

Idle == [pc |-> "idle"]

InFlight(pc) == {p \in Procs : procs[p].pc = pc}

\* case_create up to case.save(): the form is valid, the view sets organization
\* and created_by, Case.save finds no case_number and generates one
create_begin(p, u, status, shared, share, s) ==
    /\ procs[p].pc = "idle"
    /\ Cardinality(DOMAIN cases) + Cardinality(InFlight("insert")) < MaxCases
    /\ procs' = [procs EXCEPT ![p] =
           [pc |-> "insert", user |-> u,
            row |-> Row(generate_case_number(Org(u), s), Org(u), u, status, shared, share)]]
    /\ UNCHANGED <<cases, opinions, comments, activities, batches, last, history>>

\* super().save(): the INSERT, which the unique index accepts or refuses; then
\* save_m2m and the CREATED row.  A refused INSERT raises IntegrityError, which
\* case_create does not catch: the request fails and stores nothing.
create_insert(p) ==
    /\ procs[p].pc = "insert"
    /\ procs' = [procs EXCEPT ![p] = Idle]
    /\ LET u == procs[p].user
           c == FreePk
       IN IF UniqueOk(procs[p].row.case_number)
          THEN /\ cases' = InsertCase(c, procs[p].row)
               /\ Log(<<Act(c, "CREATED")>>)
               /\ last' = Resp("case_create", u, c, "ok", {})
               /\ UNCHANGED <<opinions, comments, batches, history>>
          ELSE /\ last' = Resp("case_create", u, NoCase, "error", {})
               /\ Log(<<>>)
               /\ UNCHANGED <<cases, opinions, comments, batches, history>>

\* the three ingestion paths; the two background tasks create the batch and
\* its items inside transaction.atomic(), and only process_s3_images leaves
\* the instance number out
Tasks == {"image_upload", "process_image_upload", "process_s3_images"}

Transactional(task) == task # "image_upload"

Extracts(task) == task # "process_s3_images"

\* an ingestion up to the loop over the files: the case is looked up and the
\* CaseImage row is created
upload_begin(p, task, u, c, files) ==
    /\ procs[p].pc = "idle"
    /\ IF task = "image_upload" THEN OrgOrShared(u, c) /\ files # <<>> ELSE Exists(c)
    /\ Len(batches) < MaxBatches
    /\ batches' = Append(batches,
           Batch(c, u, <<>>, IF Transactional(task) THEN p ELSE Committed))
    /\ procs' = [procs EXCEPT ![p] =
           [pc |-> IF files = <<>> THEN "finish" ELSE "check", task |-> task,
            user |-> u, case |-> c, files |-> files, index |-> 1,
            b |-> Len(batches) + 1, primary |-> FALSE, errors |-> <<>>,
            needs_rollback |-> FALSE]]
    /\ UNCHANGED <<cases, opinions, comments, activities, last, history>>

\* the is_primary argument of the item is evaluated: index == 0 and no primary
\* item of the case exists, as far as this request can see
upload_check(p) ==
    /\ procs[p].pc = "check"
    /\ procs' = [procs EXCEPT ![p].pc = "save",
                              ![p].primary =
                                  /\ procs[p].index = 1
                                  /\ ~HasPrimary(procs[p].case, batches[procs[p].b].tx)]
    /\ UNCHANGED <<cases, opinions, comments, activities, batches, last, history>>

\* the item is saved with the is_primary value computed before, or the file
\* raises and the error is recorded; then the loop goes on.  Inside
\* transaction.atomic() a file that raises in the create marks the transaction
\* for rollback, and the create of every later file raises
upload_save(p) ==
    /\ procs[p].pc = "save"
    /\ LET q == procs[p]
           f == q.files[q.index]
           pc == IF q.index < Len(q.files) THEN "check" ELSE "finish"
       IN IF f.fetched /\ f.storable /\ ~q.needs_rollback
          THEN /\ batches' = [batches EXCEPT ![q.b].items =
                      Append(@, Item(f, q.index - 1, q.primary, Extracts(q.task)))]
               /\ procs' = [procs EXCEPT ![p].pc = pc, ![p].index = q.index + 1]
          ELSE /\ batches' = batches
               /\ procs' = [procs EXCEPT
                      ![p].pc = pc,
                      ![p].index = q.index + 1,
                      ![p].errors = Append(@, <<f.stem, f.ext>>),
                      ![p].needs_rollback =
                          \/ q.needs_rollback
                          \/ Transactional(q.task) /\ f.fetched /\ ~f.storable]
    /\ UNCHANGED <<cases, opinions, comments, activities, last, history>>

\* the requests in flight after the row at position b left the table: the
\* batches behind it move up
Shifted(p, b) ==
    [r \in Procs |->
        IF r = p THEN Idle
        ELSE IF procs[r].pc # "idle" /\ procs[r].b > b
             THEN [procs[r] EXCEPT !.b = @ - 1]
             ELSE procs[r]]

\* after the loop: the IMAGE_ADDED row when an item was persisted, the commit
\* of the transaction, the response.  A transaction marked for rollback ends
\* without its batch: by the exception of CaseActivity.objects.create when an
\* item was counted, silently when none was
upload_finish(p) ==
    /\ procs[p].pc = "finish"
    /\ LET q == procs[p]
           count == Len(batches[q.b].items)
       IN IF q.needs_rollback
          THEN /\ Log(<<>>)
               /\ batches' = Remove(batches, q.b)
               /\ last' = [Resp(q.task, q.user, q.case,
                                IF count > 0 THEN "error" ELSE "success", {})
                           EXCEPT !.files = q.files,
                                  !.errors = IF count > 0 THEN <<>> ELSE q.errors]
               /\ procs' = Shifted(p, q.b)
          ELSE /\ Log(Summary(q.case, count,
                              IF Transactional(q.task) THEN Len(q.files) ELSE None))
               /\ batches' = [batches EXCEPT ![q.b].tx = Committed]
               /\ last' = [Resp(q.task, q.user, q.case,
                                IF Transactional(q.task) THEN "success"
                                ELSE IF count > 0 THEN "ok" ELSE "none_uploaded", {})
                           EXCEPT !.files = q.files, !.errors = q.errors]
               /\ procs' = [procs EXCEPT ![p] = Idle]
    /\ UNCHANGED <<cases, opinions, comments, history>>

-----------------------------------------------------------------------------
(* Specifications.  Each one starts from a database the application can    *)
(* hold and serves the requests of one area of the application.            *)

NoResp == Resp("none", "none", NoCase, "ok", {})

\* a database without cases
Empty ==
    /\ cases = <<>>
    /\ opinions = <<>>
    /\ comments = <<>>
    /\ activities = <<>>
    /\ batches = <<>>
    /\ last = NoResp
    /\ procs = [p \in Procs |-> Idle]

\* a database with one case, as case_create by one of "creators" leaves it
\* (the log purged), and nothing else; shares are the share sets it may have
OneCase(creators, statuses, shares) ==
    /\ \E u \in creators, status \in statuses, shared \in BOOLEAN :
          \E share \in ShareChoices(u) \cap shares :
              cases = 1 :> Row(generate_case_number(Org(u), 1), Org(u), u, status,
                               shared, share)
    /\ opinions = <<>>
    /\ comments = <<>>
    /\ activities = <<>>
    /\ batches = <<>>
    /\ last = NoResp
    /\ procs = [p \in Procs |-> Idle]

(* Drafts and visibility: the life cycle of a case and who gets to see it *)
InitDraft == OneCase(Users, StatusInputs, SUBSET Orgs) /\ history = FALSE

NextDraft ==
    \/ \E u \in Users : case_list(u)
    \/ \E u \in Users, c \in CaseIds : case_detail(u, c)
    \/ \E u \in Users, c \in CaseIds : case_update(u, c)
    \/ \E u \in Users, c \in CaseIds : case_publish(u, c)
    \/ \E u \in Users, c \in CaseIds : case_to_draft(u, c)
    \/ \E u \in Users, c \in CaseIds : case_share(u, c)

SpecDraft == InitDraft /\ [][NextDraft]_vars

(* Opinions, edits and deletion of a case of alice *)
InitOpinion == OneCase({"alice"}, StatusInputs, SUBSET Orgs) /\ history = FALSE

NextOpinion ==
    \/ \E u \in Users, c \in CaseIds : add_opinion(u, c)
    \/ \E u \in Users, o \in 1 .. MaxOpinions : update_opinion(u, o)
    \/ \E u \in Users, o \in 1 .. MaxOpinions : delete_opinion(u, o)
    \/ \E u \in Users, c \in CaseIds : case_delete(u, c)
    \/ \E u \in Users, c \in CaseIds : case_update(u, c)
    \/ \E u \in Users, c \in CaseIds : ajax_case_status_update(u, c)
    \/ \E u \in Users, c \in CaseIds : case_share(u, c)

SpecOpinion == InitOpinion /\ [][NextOpinion]_vars

(* The audit trail: the whole CaseActivity table of a case of alice *)
InitAudit == OneCase({"alice"}, StatusInputs, {{}}) /\ history = TRUE

NextAudit ==
    \/ \E u \in Users, c \in CaseIds : case_publish(u, c)
    \/ \E u \in Users, c \in CaseIds : case_to_draft(u, c)
    \/ \E u \in Users, c \in CaseIds : ajax_case_status_update(u, c)
    \/ \E c \in CaseIds : bulk_update_cases(c)
    \/ \E u \in Users : delete_all_activity_logs(u)
    \/ \E k \in 0 .. MaxActs : cleanup_old_activities(k)
    \/ \E u \in Users, i \in 1 .. MaxActs : admin_delete_activity(u, i)

SpecAudit == InitAudit /\ [][NextAudit]_vars

(* Images of a case of alice, one request at a time: uploads and deletes *)
ImageUsers == {"alice", "dave"}

PrimaryFiles == {Slice1, Photo, Refused}

\* the files the background tasks of SpecImages are given
TaskFiles == {Photo, Refused}

InitImages == OneCase({"alice"}, {"ACTIVE"}, {{"B"}}) /\ history = FALSE

NextImages ==
    \/ \E u \in ImageUsers, c \in CaseIds, files \in Uploads(PrimaryFiles) :
          image_upload(u, c, files)
    \/ \E u \in ImageUsers, c \in CaseIds, files \in Uploads(TaskFiles) :
          process_image_upload(u, c, files)
    \/ \E u \in ImageUsers, c \in CaseIds, files \in Uploads(TaskFiles) :
          process_s3_images(u, c, files)
    \/ \E u \in ImageUsers, b \in 1 .. MaxBatches : image_delete(u, b)
    \/ \E u \in ImageUsers, c \in CaseIds : delete_dicom_series(u, c)

SpecImages == InitImages /\ [][NextImages]_vars

(* The DICOM series of a case of alice: uploads of DICOM files, the viewer, *)
(* the download                                                             *)
SeriesUsers == {"alice", "dave"}

SeriesFiles == {Slice1, Slice2, Corrupt}

InitSeries == OneCase({"alice"}, {"ACTIVE"}, {{"B"}}) /\ history = FALSE

NextSeries ==
    \/ \E u \in SeriesUsers, c \in CaseIds, files \in Uploads(SeriesFiles) :
          image_upload(u, c, files)
    \/ \E u \in SeriesUsers, c \in CaseIds, files \in Uploads(SeriesFiles) :
          process_image_upload(u, c, files)
    \/ \E u \in SeriesUsers, c \in CaseIds : dicom_series_viewer(u, c)
    \/ \E u \in SeriesUsers, c \in CaseIds : download_dicom_series(u, c)

SpecSeries == InitSeries /\ [][NextSeries]_vars

(* Concurrent uploads to a case of alice: the steps of the ingestions of  *)
(* several requests interleave                                            *)
RaceFiles == {Photo, Refused}

RaceUsers == {"alice"}

InitRace == OneCase({"alice"}, {"ACTIVE"}, {{"B"}}) /\ history = FALSE

NextRace ==
    \/ \E p \in Procs, task \in Tasks, u \in RaceUsers, c \in CaseIds,
          files \in Uploads(RaceFiles) : upload_begin(p, task, u, c, files)
    \/ \E p \in Procs : upload_check(p)
    \/ \E p \in Procs : upload_save(p)
    \/ \E p \in Procs : upload_finish(p)

SpecRace == InitRace /\ [][NextRace]_vars

(* Ingestion with failing files: files the storage refuses and, in the      *)
(* background tasks, files whose content does not arrive                   *)
IngestFiles == {Photo, Refused, Missing}

InitIngest == OneCase({"alice"}, {"ACTIVE"}, {{}}) /\ history = FALSE

NextIngest ==
    \/ \E u \in ImageUsers, c \in CaseIds, files \in Uploads({Photo, Refused}) :
          image_upload(u, c, files)
    \/ \E u \in ImageUsers, c \in CaseIds, files \in Uploads(IngestFiles) :
          \/ process_image_upload(u, c, files)
          \/ process_s3_images(u, c, files)

SpecIngest == InitIngest /\ [][NextIngest]_vars

(* Removal of images in a database with two cases *)
RemoveFiles == {Slice1, Photo}

\* a database with two cases of one organization, as two case_create requests
\* of alice leave it
TwoCases(statuses) ==
    /\ \E s1, s2 \in statuses :
          cases = (1 :> Row(generate_case_number("A", 1), "A", "alice", s1, FALSE, {}))
                  @@ (2 :> Row(generate_case_number("A", 2), "A", "alice", s2, FALSE, {}))
    /\ opinions = <<>>
    /\ comments = <<>>
    /\ activities = <<>>
    /\ batches = <<>>
    /\ last = NoResp
    /\ procs = [p \in Procs |-> Idle]

InitRemove == TwoCases({"ACTIVE"}) /\ history = FALSE

NextRemove ==
    \/ \E u \in ImageUsers, c \in CaseIds, files \in Uploads(RemoveFiles) :
          image_upload(u, c, files)
    \/ \E u \in ImageUsers, b \in 1 .. MaxBatches : image_delete(u, b)
    \/ \E u \in ImageUsers, c \in CaseIds : delete_dicom_series(u, c)

SpecRemove == InitRemove /\ [][NextRemove]_vars

(* Access to a case and its images: the read endpoints, comments, opinions *)
(* and uploads of members, shared users and outsiders                      *)
AccessUsers == {"alice", "bob", "dave"}

\* the uploads of these specifications: one DICOM slice
AccessUploads == {<<Slice1>>}

InitAccess == OneCase({"alice"}, {"DRAFT", "ACTIVE"}, SUBSET Orgs) /\ history = FALSE

\* the read endpoints, and uploads that give them images to show
NextAccess ==
    \/ \E u \in AccessUsers : case_list(u)
    \/ \E u \in AccessUsers, c \in CaseIds :
          \/ case_detail(u, c)
          \/ image_list(u, c)
          \/ dicom_series_viewer(u, c)
          \/ download_dicom_series(u, c)
          \/ download_all_images(u, c)
    \/ \E u \in AccessUsers, b \in 1 .. MaxBatches :
          \/ image_detail(u, b)
          \/ dicom_viewer(u, b)
    \/ \E u \in AccessUsers, c \in CaseIds, files \in AccessUploads :
          image_upload(u, c, files)

SpecAccess == InitAccess /\ [][NextAccess]_vars

(* What a draft admits: the operations on a case and its images, asked by  *)
(* the creator and by a colleague of the creator's organization            *)
GuardUsers == {"alice", "bob"}

InitGuard == OneCase({"alice"}, {"DRAFT"}, {{}}) /\ history = FALSE

NextGuard ==
    \/ \E u \in GuardUsers, c \in CaseIds :
          \/ comment_add(u, c)
          \/ add_opinion(u, c)
          \/ image_list(u, c)
          \/ dicom_series_viewer(u, c)
          \/ download_dicom_series(u, c)
          \/ download_all_images(u, c)
    \/ \E u \in GuardUsers, b \in 1 .. MaxBatches : image_detail(u, b)
    \/ \E u \in GuardUsers, c \in CaseIds, files \in AccessUploads :
          image_upload(u, c, files)

SpecGuard == InitGuard /\ [][NextGuard]_vars

(* Edits inside the owning organization: the case of an admin, requests of *)
(* the admin, of a plain member and of a staff user of another organization *)
EditUsers == {"alice", "bob", "erin"}

InitEdit == OneCase({"bob"}, StatusInputs, {{}}) /\ history = FALSE

NextEdit ==
    \/ \E u \in EditUsers, c \in CaseIds :
          \/ case_update(u, c)
          \/ ajax_case_status_update(u, c)
          \/ add_opinion(u, c)
          \/ case_publish(u, c)
          \/ case_to_draft(u, c)
    \/ \E u \in EditUsers, o \in 1 .. MaxOpinions :
          \/ update_opinion(u, o)
          \/ delete_opinion(u, o)

SpecEdit == InitEdit /\ [][NextEdit]_vars

(* Profiles and what their roles permit: profiles of every role, and the   *)
(* edit and share requests that ask is_admin                               *)
InitRoles == OneCase({"alice"}, {"ACTIVE"}, SUBSET Orgs) /\ history = FALSE

NextRoles ==
    \/ \E u \in Users, org \in Orgs, role \in RoleInputs : user_profile(u, org, role)
    \/ \E name \in Orgs, org_type \in ORG_TYPE_CHOICES : organization_create(name, org_type)
    \/ \E u \in Users, c \in CaseIds :
          \/ case_update(u, c)
          \/ case_share(u, c)

SpecRoles == InitRoles /\ [][NextRoles]_vars

(* Concurrent case creations: the generation of the case number and the    *)
(* INSERT of two requests interleave                                       *)
InitCreate == Empty /\ history = FALSE

NextCreate ==
    \/ \E p \in Procs, u \in Users, status \in {"DRAFT", "ACTIVE"}, s \in Suffixes :
          create_begin(p, u, status, FALSE, {}, s)
    \/ \E p \in Procs : create_insert(p)

SpecCreate == InitCreate /\ [][NextCreate]_vars


-----------------------------------------------------------------------------
(* Properties of the primary flag *)

\* the stored batches of case c that hold an item with is_primary = true
PrimaryBatches(c) ==
    {b \in 1 .. Len(batches) :
        /\ batches[b].case = c
        /\ \E i \in 1 .. Len(batches[b].items) : batches[b].items[i].is_primary}

\* the items of batch b with is_primary = true
PrimaryItems(b) ==
    {i \in 1 .. Len(batches[b].items) : batches[b].items[i].is_primary}

\* C1: after any sequence of uploads (image_upload, process_image_upload,
\* process_s3_images) and deletes (image_delete, delete_dicom_series) served one
\* at a time, at most one CaseImageItem of a case has is_primary = true.
C1_AtMostOnePrimary ==
    \A c \in CaseIds :
        /\ Cardinality(PrimaryBatches(c)) <= 1
        /\ \A b \in PrimaryBatches(c) : Cardinality(PrimaryItems(b)) = 1

\* C1, reached: a second upload has stored its first file in a case that
\* already had a primary item, and the item it stored is not primary
C1_SecondUploadNotPrimary ==
    /\ Len(batches) = 2
    /\ last.op \in Tasks
    /\ batches[1].case = batches[2].case
    /\ PrimaryItems(1) = {1}
    /\ batches[2].items # <<>>
    /\ PrimaryItems(2) = {}

\* C2: two uploads to a case without a primary item, their steps interleaved,
\* never both persist an item with is_primary = true.
C2_NoTwoPrimariesWhenConcurrent ==
    \A c \in CaseIds :
        \A a, b \in PrimaryBatches(c) : a = b

-----------------------------------------------------------------------------
(* Properties of drafts, shared cases and deletion *)

\* user u is neither the creator of case c nor a superuser, and c is a draft
HiddenDraft(u, c) ==
    /\ c \in DOMAIN cases
    /\ cases[c].status = "DRAFT"
    /\ cases[c].created_by # u
    /\ ~is_superuser(u)

\* C3: for a case with status DRAFT and a user who is neither its creator nor a
\* superuser, case_list never includes the case and case_detail never returns
\* it, also for members of the owning or of a shared organization.
C3_DraftHiddenFromOthers ==
    /\ last.op = "case_list" => \A c \in last.listed : ~HiddenDraft(last.user, c)
    /\ last.op = "case_detail" /\ last.code = "ok" => ~HiddenDraft(last.user, last.case)

\* the organization of user u is in the share set of case c and does not own it
SharedOnly(u, c) ==
    /\ c \in DOMAIN cases
    /\ Org(u) \in cases[c].share_with_branches
    /\ Org(u) # cases[c].organization

\* C4: no request by a user of a shared, non-owning organization changes a
\* field of the case, deletes it or changes its share set.
C4_SharedCaseReadOnly ==
    [][\A c \in DOMAIN cases :
          last'.user \in Users /\ last'.case = c /\ SharedOnly(last'.user, c)
              => c \in DOMAIN cases' /\ cases'[c] = cases[c]]_vars

\* a non-deleted opinion on case c written by a user other than u
OtherLiveOpinion(u, c) ==
    \E i \in 1 .. Len(opinions) :
        /\ opinions[i].case = c
        /\ opinions[i].author # u
        /\ opinions[i].is_deleted = FALSE

\* C7: case_delete requested by a non-superuser never deletes a case that has a
\* non-deleted opinion of another user; the case and its opinions stay as they
\* are.
C7_ReviewedCaseNotDeleted ==
    [][last'.op = "case_delete" /\ ~is_superuser(last'.user)
          /\ OtherLiveOpinion(last'.user, last'.case)
          => cases' = cases /\ opinions' = opinions]_vars

\* C7, reached: the creator asked to delete her case, which holds a live
\* opinion of another user, and was refused
C7_CreatorRefused ==
    /\ last.op = "case_delete"
    /\ last.code = "refused"
    /\ last.case \in DOMAIN cases
    /\ cases[last.case].created_by = last.user
    /\ OtherLiveOpinion(last.user, last.case)

-----------------------------------------------------------------------------
(* Properties of the DICOM series and of ingestion *)

\* every item of the list carries an instance number, and no two the same one
DistinctInstances(items) ==
    /\ \A i \in 1 .. Len(items) : items[i].instance_number # None
    /\ \A i, j \in 1 .. Len(items) :
           i # j => items[i].instance_number # items[j].instance_number

\* C5: DICOM items that all carry an instance number, uploaded in any order
\* over any number of batches, are listed by dicom_series_viewer strictly
\* ascending by instance number.
C5_SeriesAscending ==
    last.op = "dicom_series_viewer" /\ last.code = "ok"
        /\ DistinctInstances(last.series)
    => \A i, j \in 1 .. Len(last.series) :
           i < j => last.series[i].instance_number < last.series[j].instance_number

\* the files of an upload that are DICOM-named and that pydicom cannot read
CorruptDicoms(files) ==
    {i \in 1 .. Len(files) : files[i].ext \in {".dcm", ".dicom"} /\ ~files[i].readable}

\* C10: ingesting N files of which exactly one is a corrupt DICOM (and the
\* storage takes them all) creates N-1 items, reports one per-file error and
\* appends one IMAGE_ADDED row that records N-1 files.
C10_CorruptDicomSkipped ==
    last.op \in {"image_upload", "process_image_upload"}
        /\ last.code \in {"ok", "success", "none_uploaded"}
        /\ Cardinality(CorruptDicoms(last.files)) = 1
        /\ (\A i \in 1 .. Len(last.files) : last.files[i].storable)
    => /\ Len(batches[Len(batches)].items) = Len(last.files) - 1
       /\ Len(last.errors) = 1
       /\ \/ Len(last.files) = 1
          \/ /\ Len(activities) = 1
             /\ activities[1].activity_type = "IMAGE_ADDED"
             /\ activities[1].count = Len(last.files) - 1

-----------------------------------------------------------------------------
(* Properties of the audit trail and of case numbers *)

\* the requests that change the status of a case
StatusRequests ==
    {"case_update", "case_publish", "case_to_draft", "ajax_case_status_update",
     "add_opinion", "update_opinion", "bulk_update_cases"}

\* C6: a request that changes the status of a case appends exactly one
\* CaseActivity row for the case, of type STATUS_CHANGED.
C6_StatusChangeLoggedOnce ==
    [][\A c \in DOMAIN cases :
          last'.op \in StatusRequests /\ last'.case = c
              /\ c \in DOMAIN cases' /\ cases'[c].status # cases[c].status
          => activities' = Append(activities, Act(c, "STATUS_CHANGED"))]_vars

\* C8: CaseActivity rows are never modified, and removed only by
\* delete_all_activity_logs requested by a superuser: any other step keeps
\* every row of the table in place.
C8_LogOnlyPurgedBySuperuser ==
    [][\/ last'.op = "delete_all_activity_logs" /\ is_superuser(last'.user)
       \/ /\ Len(activities') >= Len(activities)
          /\ SubSeq(activities', 1, Len(activities)) = activities]_vars

\* C9: whatever the interleaving of case creations, the case numbers of the
\* stored cases are pairwise distinct.
C9_CaseNumbersDistinct ==
    \A c, d \in DOMAIN cases :
        c # d => cases[c].case_number # cases[d].case_number

\* C9, reached: a case is stored and a creation in flight has generated the
\* same case number for its own row
C9_DuplicateNumberInFlight ==
    \E p \in Procs, c \in DOMAIN cases :
        /\ procs[p].pc = "insert"
        /\ procs[p].row.case_number = cases[c].case_number
        /\ last.op = "case_create"
        /\ last.code = "ok"

-----------------------------------------------------------------------------
(* Properties of one ingestion *)

\* the number of items the step stored: those of the batch it appended
StoredByStep ==
    IF Len(batches') > Len(batches) THEN Len(batches'[Len(batches')].items) ELSE 0

\* C11 as stated: every ingestion that ran its loop appends exactly one
\* IMAGE_ADDED row for the case, whatever the number of files that failed.
C11_OneImageAddedPerIngestion ==
    [][last'.op \in Tasks /\ last'.code \in {"ok", "none_uploaded", "success"}
          /\ last'.files # <<>>
       => /\ Len(activities') = 1
          /\ activities'[1].activity_type = "IMAGE_ADDED"
          /\ activities'[1].case = last'.case]_vars

\* C11, amended: an ingestion that stores at least one item appends exactly one
\* IMAGE_ADDED row for the case, which records the number of items stored,
\* never one row per file; an ingestion that stores no item appends no row.
C11_OneImageAddedWhenStored ==
    [][last'.op \in Tasks
       => IF StoredByStep > 0
          THEN /\ Len(activities') = 1
               /\ activities'[1].activity_type = "IMAGE_ADDED"
               /\ activities'[1].case = last'.case
               /\ activities'[1].count = StoredByStep
          ELSE activities' = <<>>]_vars

\* C11, reached: an ingestion of two files, one of which failed, has written
\* its single IMAGE_ADDED row for the one item stored
C11_PartialBatchLoggedOnce ==
    /\ last.op \in Tasks
    /\ Len(last.files) = 2
    /\ Len(last.errors) = 1
    /\ batches # <<>>
    /\ Len(batches[Len(batches)].items) = 1
    /\ activities = <<ActN(last.case, "IMAGE_ADDED", 1,
                           IF last.op = "image_upload" THEN None ELSE 2)>>

\* the files of an upload that raise nothing on their own
Sound(files) == {i \in 1 .. Len(files) : files[i].fetched /\ files[i].storable}

\* C12: in every ingestion path a file that fails leaves its siblings alone:
\* every file that raises nothing on its own is stored when the operation
\* ends, and the stored items plus the reported errors are the files.
C12_FailureKeepsSiblings ==
    [][last'.op \in Tasks /\ Exists(last'.case)
          /\ last'.code \notin {"not_found", "invalid"}
       => /\ StoredByStep = Cardinality(Sound(last'.files))
          /\ StoredByStep + Len(last'.errors) = Len(last'.files)]_vars

-----------------------------------------------------------------------------
(* Properties of delete_dicom_series *)

\* batch b belongs to case c and holds at least one DICOM item
DicomBatchOf(b, c) ==
    b.case = c /\ \E i \in 1 .. Len(b.items) : b.items[i].is_dicom

\* C13: delete_dicom_series on a case removes every batch of the case that
\* holds a DICOM item, with all its items; every other batch of the case and
\* every batch of another case stays as it is, in place; afterwards the case
\* has no DICOM item.  A request that is refused removes nothing.
C13_DeleteSeriesFrame ==
    [][last'.op = "delete_dicom_series"
       => IF last'.code = "ok"
          THEN /\ batches' = SelectSeq(batches, LAMBDA b : ~DicomBatchOf(b, last'.case))
               /\ \A i \in 1 .. Len(batches') : ~DicomBatchOf(batches'[i], last'.case)
               /\ batches' # batches
          ELSE batches' = batches]_vars

\* C13, reached: delete_dicom_series has removed the DICOM batch of its case
\* and a batch without DICOM items is still stored
C13_OtherBatchSurvives ==
    /\ last.op = "delete_dicom_series"
    /\ last.code = "ok"
    /\ Len(batches) = 1
    /\ batches[1].items # <<>>

-----------------------------------------------------------------------------
(* Properties of access: drafts, the owning organization, the read endpoints *)

\* the requests of SpecAccess that reach a case or one of its batches
AccessOps ==
    {"comment_add", "add_opinion", "image_upload", "image_list", "image_detail",
     "dicom_viewer", "dicom_series_viewer", "download_dicom_series",
     "download_all_images"}

\* the answers that refuse a request
Refusals == {"not_found", "forbidden", "refused"}

\* C14: for a case with status DRAFT, a request of a user who is neither the
\* creator nor a superuser is refused by comment_add, add_opinion, image_upload,
\* image_list, image_detail, dicom_series_viewer and the download endpoints,
\* and leaves the case, its images and its comments unchanged.
C14_DraftClosedToOthers ==
    [][last'.op \in AccessOps /\ HiddenDraft(last'.user, last'.case)
       => /\ last'.code \in Refusals
          /\ cases' = cases
          /\ batches' = batches
          /\ comments' = comments
          /\ opinions' = opinions]_vars

\* user u belongs to the organization that owns case c, and is neither its
\* creator, nor an organization admin, nor staff
PlainMember(u, c) ==
    /\ c \in DOMAIN cases
    /\ Org(u) = cases[c].organization
    /\ u # cases[c].created_by
    /\ Role(u) \notin {"HQ_ADMIN", "BRANCH_ADMIN"}
    /\ ~is_staff(u)

\* C15: a request of a member of the owning organization who is neither the
\* creator, nor an organization admin, nor staff leaves the case unchanged.
C15_PlainMemberCannotEdit ==
    [][\A c \in DOMAIN cases :
          last'.user \in Users /\ last'.case = c /\ PlainMember(last'.user, c)
          => c \in DOMAIN cases' /\ cases'[c] = cases[c]]_vars

\* the read endpoints of a case and its images
ReadOps ==
    {"case_list", "case_detail", "image_list", "image_detail", "dicom_viewer",
     "dicom_series_viewer", "download_dicom_series", "download_all_images"}

\* the organization of user u owns case c or is in its share set
Visible(u, c) ==
    \/ Org(u) = cases[c].organization
    \/ Org(u) \in cases[c].share_with_branches

\* C16: for a non-draft case, every read endpoint grants access to a user
\* exactly when the user's organization owns the case or is in its
\* share_with_branches, whatever is_shared says; case_list shows the case
\* under the same condition.
C16_ReadEndpointsAgree ==
    /\ last.op \in ReadOps \ {"case_list"} /\ last.case \in DOMAIN cases
          /\ cases[last.case].status # "DRAFT"
       => (last.code \notin Refusals <=> Visible(last.user, last.case))
    /\ last.op = "case_list"
       => \A c \in DOMAIN cases :
              cases[c].status # "DRAFT" => (c \in last.listed <=> Visible(last.user, c))

\* C17: no operation on a stored case changes its case_number.
C17_CaseNumberImmutable ==
    [][\A c \in DOMAIN cases \cap DOMAIN cases' :
          cases'[c].case_number = cases[c].case_number]_vars

\* the items of case c stored in the batches, DICOM only when asked
RECURSIVE ItemCount(_, _, _)
ItemCount(rows, c, dicom_only) ==
    IF rows = <<>> THEN 0
    ELSE (IF Head(rows).case = c
          THEN Len(SelectSeq(Head(rows).items, LAMBDA it : it.is_dicom \/ ~dicom_only))
          ELSE 0) + ItemCount(Tail(rows), c, dicom_only)

\* C18: an export by a user who sees the case, of a case that has at least one
\* file to export (a DICOM item for download_dicom_series, any item for
\* download_all_images), returns the archive and appends exactly one
\* DOWNLOADED row for the case.
C18_ExportLoggedOnce ==
    /\ last.op \in {"download_dicom_series", "download_all_images"}
    /\ last.case \in DOMAIN cases
    /\ Visible(last.user, last.case)
    /\ ItemCount(batches, last.case, last.op = "download_dicom_series") > 0
    => /\ last.code = "ok"
       /\ activities = <<Act(last.case, "DOWNLOADED")>>

-----------------------------------------------------------------------------
(* Properties of profiles *)

\* C19: the properties of a profile depend only on its role: is_hq_admin
\* holds exactly for HQ_ADMIN, is_branch_admin exactly for BRANCH_ADMIN,
\* is_admin exactly for HQ_ADMIN and BRANCH_ADMIN, can_approve_plans exactly
\* for HQ_ADMIN, BRANCH_ADMIN and DENTIST; a new Organization is active.
C19_RolePredicates ==
    /\ last.op = "user_profile"
       => /\ "is_hq_admin" \in last.properties <=> last.role = "HQ_ADMIN"
          /\ "is_branch_admin" \in last.properties <=> last.role = "BRANCH_ADMIN"
          /\ "is_admin" \in last.properties
                 <=> last.role \in {"HQ_ADMIN", "BRANCH_ADMIN"}
          /\ "can_approve_plans" \in last.properties
                 <=> last.role \in {"HQ_ADMIN", "BRANCH_ADMIN", "DENTIST"}
    /\ last.op = "organization_create" => last.is_active

\* C19, reached: the profile of a DENTIST has been read: it can approve plans
\* and is no admin of either kind
C19_DentistApprovesPlans ==
    /\ last.op = "user_profile"
    /\ last.role = "DENTIST"
    /\ last.properties = {"can_approve_plans"}

-----------------------------------------------------------------------------
(* Properties of the primary flag within one batch *)

\* C20: an ingestion into a case without primary item that stores at least
\* one item leaves exactly the first item it stored primary, also when the
\* file at index 0 failed.
C20_FirstStoredIsPrimary ==
    [][last'.op \in Tasks /\ StoredByStep > 0 /\ PrimaryBatches(last'.case) = {}
       => LET items == batches'[Len(batches')].items
          IN \A i \in 1 .. Len(items) : items[i].is_primary <=> i = 1]_vars

-----------------------------------------------------------------------------
(* The order of an item at its creation *)

\* the first slice of a series whose instance numbers count from 0, and a
\* DICOM file whose data set carries no InstanceNumber
Slice0 == File(<<"z", "5">>, ".dcm", TRUE, 0, TRUE)
Bare == File(<<"n", "7">>, ".dcm", TRUE, None, TRUE)

OrderFiles == {Slice0, Slice1, Bare, Photo}

InitOrder == OneCase({"alice"}, {"ACTIVE"}, {{}}) /\ history = FALSE

NextOrder ==
    \E c \in CaseIds, files \in Uploads(OrderFiles) :
        \/ image_upload("alice", c, files)
        \/ process_image_upload("alice", c, files)
        \/ process_s3_images("alice", c, files)

SpecOrder == InitOrder /\ [][NextOrder]_vars

\* C21: a stored DICOM item whose metadata holds an instance number, 0
\* included, has that number as its order; a DICOM item without one has
\* filename_numeric of its name; any other item has its index in the batch.
C21_OrderAtCreation ==
    \A b \in 1 .. Len(batches) : \A k \in 1 .. Len(batches[b].items) :
        LET item == batches[b].items[k]
        IN  IF item.is_dicom
            THEN IF item.instance_number # None
                 THEN item.order = item.instance_number
                 ELSE item.order = filename_numeric(item.stem)
            ELSE item.order = k - 1

-----------------------------------------------------------------------------
(* The sort key taken from a file name *)

\* DICOM files without InstanceNumber, told apart by their names: three slices
\* whose names sort differently as text and as numbers, a name with two digit
\* runs that ends in digits, names whose digit runs are followed by letters,
\* and a name without digits
NamedFile(stem) == File(stem, ".dcm", TRUE, None, TRUE)
IMG0001 == NamedFile(<<"I", "M", "G", "0", "0", "0", "1">>)
IMG0010 == NamedFile(<<"I", "M", "G", "0", "0", "1", "0">>)
IMG0002 == NamedFile(<<"I", "M", "G", "0", "0", "0", "2">>)
IM_01_42 == NamedFile(<<"I", "M", "-", "0", "1", "-", "4", "2">>)
A1B == NamedFile(<<"a", "1", "b">>)
C3D12E == NamedFile(<<"c", "3", "d", "1", "2", "e">>)
Scan == NamedFile(<<"s", "c", "a", "n">>)

\* the uploads of the names: the three slices in every order as one batch, and
\* each of the other names alone
NameUploads ==
    {files \in [1 .. 3 -> {IMG0001, IMG0010, IMG0002}] :
         \A i, j \in 1 .. 3 : i # j => files[i] # files[j]}
    \cup {<<f>> : f \in {IM_01_42, A1B, C3D12E, Scan}}

InitNames == OneCase({"alice"}, {"ACTIVE"}, {{}}) /\ history = FALSE

NextNames ==
    \E c \in CaseIds :
        \/ \E files \in NameUploads : image_upload("alice", c, files)
        \/ dicom_series_viewer("alice", c)

SpecNames == InitNames /\ [][NextNames]_vars

\* the key each name is to give: the trailing digit run, else the last digit
\* run, else 0
NameKey(stem) ==
    CASE stem = IMG0001.stem -> 1
      [] stem = IMG0010.stem -> 10
      [] stem = IMG0002.stem -> 2
      [] stem = IM_01_42.stem -> 42
      [] stem = A1B.stem -> 1
      [] stem = C3D12E.stem -> 12
      [] stem = Scan.stem -> 0

-----------------------------------------------------------------------------
(* The log entry of a deleted series *)

\* C23: a delete_dicom_series that deletes appends exactly one IMAGE_REMOVED
\* row, and the count it records is the number of files the request removed:
\* every item of every deleted batch, the non-DICOM items of a mixed batch
\* included.
C23_RemovedCountIsTotal ==
    [][last'.op = "delete_dicom_series" /\ last'.code = "ok"
       => activities' = Kept \o
              <<ActN(last'.case, "IMAGE_REMOVED",
                     ItemCount(batches, last'.case, FALSE)
                         - ItemCount(batches', last'.case, FALSE),
                     None)>>]_vars

\* C23, as the code has it: a delete_dicom_series that deletes appends exactly
\* one IMAGE_REMOVED row, and the count it records is the number of DICOM
\* items the request removed; the other items of a mixed batch go with their
\* batch and are not counted.
C23_RemovedCountIsDicom ==
    [][last'.op = "delete_dicom_series" /\ last'.code = "ok"
       => activities' = Kept \o
              <<ActN(last'.case, "IMAGE_REMOVED",
                     ItemCount(batches, last'.case, TRUE)
                         - ItemCount(batches', last'.case, TRUE),
                     None)>>]_vars

\* C23, reached: a series of two DICOM items has been deleted, every batch of
\* the case went with it, and the one IMAGE_REMOVED row counts 2
C23_SeriesOfTwoRemoved ==
    /\ last.op = "delete_dicom_series"
    /\ last.code = "ok"
    /\ ItemCount(batches, last.case, FALSE) = 0
    /\ activities = <<ActN(last.case, "IMAGE_REMOVED", 2, None)>>

-----------------------------------------------------------------------------
(* ajax_case_status_update step by step, next to bulk_update_cases *)

\* ajax_case_status_update up to case.status = new_status: the view has read
\* the row without a lock and holds it, with the new status, in its instance
status_update_read(p, u, c, new_status) ==
    /\ procs[p].pc = "idle"
    /\ OwnOrg(u, c)
    /\ new_status \in STATUS_CHOICES
    /\ procs' = [procs EXCEPT ![p] =
           [pc |-> "save", user |-> u, case |-> c,
            row |-> [cases[c] EXCEPT !.status = new_status]]]
    /\ UNCHANGED <<cases, opinions, comments, activities, batches, last, history>>

\* case.save(): an UPDATE of every column of the row with the values of the
\* instance, then the STATUS_CHANGED row
status_update_save(p) ==
    /\ procs[p].pc = "save"
    /\ cases' = [cases EXCEPT ![procs[p].case] = procs[p].row]
    /\ Log(<<Act(procs[p].case, "STATUS_CHANGED")>>)
    /\ last' = Resp("ajax_case_status_update", procs[p].user, procs[p].case, "ok", {})
    /\ procs' = [procs EXCEPT ![p] = Idle]
    /\ UNCHANGED <<opinions, comments, batches, history>>

InitLock == OneCase({"alice"}, {"ACTIVE"}, {{}}) /\ history = FALSE

\* bulk_update_cases holds the row lock from its SELECT to its commit, so it
\* is one step; the SELECT of the view takes no lock and waits for none
NextLock ==
    \/ \E p \in Procs, c \in CaseIds, new_status \in StatusInputs :
          status_update_read(p, "alice", c, new_status)
    \/ \E p \in Procs : status_update_save(p)
    \/ \E c \in CaseIds : bulk_update_cases(c)

SpecLock == InitLock /\ [][NextLock]_vars

\* C24: bulk_update_cases locks the row, so no edit that runs next to it loses
\* a committed update: the save of a status update changes the status and
\* leaves every other column as the last commit left it, and a bulk update
\* changes only the columns of its updates.
C24_NoLostUpdate ==
    [][/\ \A p \in Procs :
              procs[p].pc = "save" /\ procs'[p].pc = "idle"
                  => cases'[procs[p].case] =
                         [cases[procs[p].case] EXCEPT !.status = procs[p].row.status]
       /\ last'.op = "bulk_update_cases" /\ last'.code = "ok"
              => \/ [cases'[last'.case] EXCEPT !.status = cases[last'.case].status]
                        = cases[last'.case]
                 \/ [cases'[last'.case] EXCEPT !.case_number = cases[last'.case].case_number]
                        = cases[last'.case]]_vars

-----------------------------------------------------------------------------
(* process_image_upload with its progress reports *)

\* file sizes in MB, on either side of the two thresholds of the task
LargeFileMB == 5
SingleLargeMB == 10
SizeChoices == {1, 6, 11}

\* progress_recorder.set_progress(current, total, ...), with the place of the
\* call: "start" before the batch row, "decoding" before b64decode of file
\* index, "decoded" after it, "saving" before the item is created,
\* "persisted" after it, "end" after the transaction
Progress(current, total, at, index) ==
    [current |-> current, total |-> total, at |-> at, index |-> index]

\* total_files == 1 and total_size > 10 MB
is_single_large_file(sizes) == Len(sizes) = 1 /\ sizes[1] > SingleLargeMB

\* the reports of the loop from file i on; rollback says whether an earlier
\* create has marked the transaction, after which every create raises
RECURSIVE ProgressLoop(_, _, _, _)
ProgressLoop(files, sizes, i, rollback) ==
    IF i > Len(files) THEN <<>>
    ELSE LET f == files[i]
             large == is_single_large_file(sizes) \/ sizes[i] > LargeFileMB
             decoding == IF large THEN <<Progress(10, 100, "decoding", i - 1)>>
                         ELSE <<Progress(i - 1, Len(files), "decoding", i - 1)>>
             decoded == IF large THEN <<Progress(30, 100, "decoded", i - 1)>> ELSE <<>>
             saving == IF large THEN <<Progress(60, 100, "saving", i - 1)>> ELSE <<>>
             persisted == IF is_single_large_file(sizes)
                          THEN <<Progress(90, 100, "persisted", i - 1)>> ELSE <<>>
         IN IF ~f.fetched
            THEN decoding \o ProgressLoop(files, sizes, i + 1, rollback)
            ELSE IF rollback \/ ~f.storable
            THEN decoding \o decoded \o saving \o ProgressLoop(files, sizes, i + 1, TRUE)
            ELSE decoding \o decoded \o saving \o persisted
                 \o ProgressLoop(files, sizes, i + 1, rollback)

\* every report of a run: the one before the batch row for a single large
\* file, those of the loop, and the one after the transaction unless the
\* block was left by an exception
ProgressOf(files, sizes, raised) ==
    (IF is_single_large_file(sizes) THEN <<Progress(0, 100, "start", None)>> ELSE <<>>)
    \o ProgressLoop(files, sizes, 1, FALSE)
    \o (IF raised THEN <<>> ELSE <<Progress(Len(files), Len(files), "end", None)>>)

\* process_image_upload on files of the given sizes: the ingestion, and in the
\* answer the progress reports the client could poll during the run
process_image_upload_progress(u, c, files, sizes) ==
    IF ~Exists(c) THEN Answer("process_image_upload", u, c, "error")
    ELSE LET run == TaskRun(files, ~HasPrimary(c, Committed), TRUE)
             raised == run.needs_rollback /\ run.items # <<>>
             answer == [Resp("process_image_upload", u, c,
                             IF raised THEN "error" ELSE "success", {})
                        EXCEPT !.files = files,
                               !.errors = IF raised THEN <<>> ELSE run.errors]
         IN /\ last' = answer @@ [progress |-> ProgressOf(files, sizes, raised)]
            /\ IF run.needs_rollback
               THEN Log(<<>>) /\ UNCHANGED batches
               ELSE /\ Len(batches) < MaxBatches
                    /\ batches' = Append(batches, Batch(c, u, run.items, Committed))
                    /\ Log(Summary(c, Len(run.items), Len(files)))
            /\ UNCHANGED <<cases, opinions, comments, procs, history>>

ProgressFiles == {Photo, Refused, Missing}

InitProgress == OneCase({"alice"}, {"ACTIVE"}, {{}}) /\ history = FALSE

NextProgress ==
    \E c \in CaseIds, files \in Uploads(ProgressFiles) :
        \E sizes \in [1 .. Len(files) -> SizeChoices] :
            process_image_upload_progress("alice", c, files, sizes)

SpecProgress == InitProgress /\ [][NextProgress]_vars

\* the reports of a run made at place "at" for the file at index
ReportsAt(at, index) ==
    {k \in 1 .. Len(last.progress) :
         last.progress[k].at = at /\ last.progress[k].index = index}

\* C25: every run of process_image_upload that ends, whatever the number and
\* the sizes of its files, has reported progress at the start of the batch,
\* after decoding each file it stored, after persisting each item, and at the
\* end of the batch; and every report has 0 <= current <= total.
C25_ProgressAtEveryStage ==
    last.op = "process_image_upload" /\ last.code = "success"
    => /\ ReportsAt("start", None) # {}
       /\ ReportsAt("end", None) # {}
       /\ \A i \in 1 .. Len(last.files) :
              (/\ last.files[i].fetched /\ last.files[i].storable
               /\ \A j \in 1 .. i - 1 : ~last.files[j].fetched \/ last.files[j].storable)
                  => /\ ReportsAt("decoded", i - 1) # {}
                     /\ ReportsAt("persisted", i - 1) # {}
       /\ \A k \in 1 .. Len(last.progress) :
              /\ 0 <= last.progress[k].current
              /\ last.progress[k].current <= last.progress[k].total

-----------------------------------------------------------------------------
(* Properties of the status of a case *)

\* C26: the status of every stored case is one of STATUS_CHOICES, whatever
\* the requests post as case_status or status and whatever a bulk update sets.
C26_StatusIsAChoice ==
    \A c \in DOMAIN cases : cases[c].status \in STATUS_CHOICES

\* C27: the status of a case moves from DRAFT to another status, or from
\* another status to DRAFT, only in a request made by the creator of the case.
C27_DraftBoundaryByCreator ==
    [][\A c \in DOMAIN cases \cap DOMAIN cases' :
           (cases[c].status = "DRAFT") # (cases'[c].status = "DRAFT")
               => last'.user = cases[c].created_by]_vars

-----------------------------------------------------------------------------
(* Batches without items *)

\* C28: every stored batch holds at least one item: an ingestion whose files
\* all fail leaves no batch row.
C28_NoEmptyBatch ==
    \A b \in 1 .. Len(batches) : batches[b].items # <<>>

-----------------------------------------------------------------------------
(* Comments on a case shared with another organization *)

CommentUsers == {"alice", "bob", "dave", "erin"}

InitComments == OneCase({"alice"}, {"ACTIVE"}, {{"B"}}) /\ history = FALSE

NextComments ==
    \E u \in CommentUsers, c \in CaseIds :
        \/ comment_add(u, c)
        \/ case_detail(u, c)

SpecComments == InitComments /\ [][NextComments]_vars

\* C29: case_detail shows a PRIVATE comment to its author only, and a TEAM
\* comment only to its author and to the users of the author's organization,
\* also when that organization is one the case is shared with.
C29_CommentScope ==
    last.op = "case_detail" /\ last.code = "ok"
    => \A k \in last.comments :
           /\ comments[k].visibility = "PRIVATE" => comments[k].author = last.user
           /\ comments[k].visibility = "TEAM"
                  => \/ comments[k].author = last.user
                     \/ Org(comments[k].author) = Org(last.user)

-----------------------------------------------------------------------------
(* CaseUpdateConsumer: the WebSocket connections to the group of a case *)

\* scope["user"] of a connection without a session
AnonymousUser == "anonymous"

is_anonymous(u) == u = AnonymousUser

\* has_case_permission: the case exists and the user is staff, its assignee or
\* its creator (the cases of the model have no assignee)
has_case_permission(u, c) ==
    Exists(c) /\ (is_staff(u) \/ cases[c].created_by = u)

\* a message of channel_layer.group_send to the group of case c
GroupSend(c, type, u) == [group |-> c, type |-> type, user |-> u]

\* what a handler of the consumer did: its outcome and its group messages
Handled(op, u, c, code, sent) == Resp(op, u, c, code, {}) @@ [sent |-> sent]

\* CaseUpdateConsumer.connect: user, case_id and case_group are set first; an
\* anonymous user and a user without permission are closed, any other is added
\* to the group, accepted, and announced with user_joined
connect(p, u, c) ==
    /\ procs[p].pc = "idle"
    /\ IF ~is_anonymous(u) /\ has_case_permission(u, c)
       THEN /\ procs' = [procs EXCEPT ![p] = [pc |-> "accepted", user |-> u, case_group |-> c]]
            /\ last' = Handled("connect", u, c, "accepted", <<GroupSend(c, "user_joined", u)>>)
       ELSE /\ procs' = [procs EXCEPT ![p] = [pc |-> "closed", user |-> u, case_group |-> c]]
            /\ last' = Handled("connect", u, c, "closed", <<>>)
    /\ UNCHANGED <<cases, opinions, comments, activities, batches, history>>

\* CaseUpdateConsumer.disconnect, which the server calls for every connection
\* that ends, one closed in connect included: case_group is set, so user_left
\* is sent to the group and the channel is discarded from it
disconnect(p) ==
    /\ procs[p].pc \in {"accepted", "closed"}
    /\ procs' = [procs EXCEPT ![p] = Idle]
    /\ last' = Handled("disconnect", procs[p].user, procs[p].case_group, "ok",
                       <<GroupSend(procs[p].case_group, "user_left", procs[p].user)>>)
    /\ UNCHANGED <<cases, opinions, comments, activities, batches, history>>

SocketUsers == {"alice", "bob", "erin", AnonymousUser}

InitSocket == OneCase({"alice"}, {"ACTIVE"}, {{}}) /\ history = FALSE

NextSocket ==
    \E p \in Procs :
        \/ \E u \in SocketUsers, c \in CaseIds : connect(p, u, c)
        \/ disconnect(p)

SpecSocket == InitSocket /\ [][NextSocket]_vars

\* C30: a disconnect sends user_left to a case group only for a connection
\* that was accepted, and so had sent user_joined; the disconnect of a
\* connection closed in connect sends nothing.
C30_LeftOnlyAfterJoined ==
    [][\A p \in Procs :
           last'.op = "disconnect" /\ procs[p].pc # "idle" /\ procs'[p].pc = "idle"
               => IF procs[p].pc = "accepted"
                  THEN last'.sent = <<GroupSend(procs[p].case_group, "user_left",
                                                procs[p].user)>>
                  ELSE last'.sent = <<>>]_vars

====
